---- MODULE Spec2Model ----
(***************************************************************************)
(* Verification model of keremnalbant/ai-recruiter.                        *)
(*                                                                         *)
(* Part I  (specification Spec): the session state store,                  *)
(*   infrastructure/state/manager.py over a DynamoDB table keyed by        *)
(*   (session_id, timestamp), used by several concurrent writers.          *)
(* Part II (specification FlowSpec): one enrichment run on each of the     *)
(*   three orchestration paths: agents/coordinator.py (execute_task),      *)
(*   agents/new_coordinator.py (process) and agents/workflow.py (graph).   *)
(* Part III (QueueSpec): the priority job queue, utils/queue.py.           *)
(* Part IV (ApiSpec): the submission endpoints.                            *)
(* Part V  (ScraperSpec): the GitHub scraper handler.                      *)
(* Part VI (MetricsSpec, HealthSpec): the queue monitor.                   *)
(***************************************************************************)
EXTENDS Integers, Sequences, FiniteSets, TLC

(***************************************************************************)
(* Bounds of the model.                                                    *)
(***************************************************************************)
MaxTime == 2
MaxCalls == 3
TicksPerSec == 2
MaxProfiles == 2

(***************************************************************************)
(* Program constants.                                                      *)
(***************************************************************************)
DefaultTTL == 86400
WorkflowLimit == 50

Sessions == {"s1", "s2"}
Writers == {"w1", "w2"}
None == "None"
NotFound == [session_id |-> None]
EmptyDict == "{}"
GithubValues == {"g1"}
LinkedinValues == {"l1"}
FinalValues == {"f1"}
Contents == {"m1"}
MessageTypes == {"system", "error"}

VARIABLES
    table,      \* DynamoDB state table: a set of items, at most one per key
    now,        \* wall clock read by datetime.now(), in ticks
    pc,         \* per writer: position inside the StateManager call
    call,       \* per writer: the call in progress [op, session_id, arg]
    cur,        \* per writer: current_state read by get_latest_state
    res,        \* per writer: outcome of the last finished call
    puts,       \* per writer: put_item requests issued by the call in progress
    saved,      \* per session: number of save_state calls that returned normally
    ncalls,     \* number of calls started (bounds the run)
    path,       \* orchestration path of the run
    fpc,        \* position of the run on the two sequential paths
    limit,      \* limit supplied by the caller
    msg0,       \* type of the message the workflow graph is started with
    repo,       \* repository text extracted by the LLM
    logged_in,  \* LinkedInScraper.is_logged_in
    github_result,    \* github_profiles / github_result / state["github_data"]
    linkedin_result,  \* linkedin_profiles / linkedin_result / state["linkedin_data"]
    final_response,   \* value returned by the merge
    messages,   \* state["messages"] of the workflow graph
    active,     \* graph nodes scheduled in the current superstep
    triggered,  \* graph nodes triggered for the next superstep
    lookups,    \* log of the secondary lookups issued: entity and path taken
    requests,   \* log of the GitHub requests issued
    trace,      \* log of the stages invoked, in order
    outcome,    \* None while running, then "completed" or the error raised
    jobs,       \* broker: job records by id (status, origin, ended_at, result)
    queues,     \* broker: per lane, the list of queued job ids
    finished_registry,  \* broker: FinishedJobRegistry of each lane
    failed_registry,    \* broker: FailedJobRegistry of each lane
    today,      \* wall clock of the broker and of JobManager, in days
    running,    \* job ids a worker is executing
    cancelling, \* the cancel_job call in progress
    inspecting, \* the get_job_status call in progress
    report,     \* what the last finished JobManager call did and returned
    requested,  \* per job: the priority its caller passed to enqueue_job
    executed,   \* job ids a worker has ever pulled
    nops,       \* number of JobManager calls started (bounds the run)
    responses,  \* log of the API requests handled, with the response of each
    coordinator_calls,  \* requests passed on to CoordinatorAgent.process
    hpc,        \* scraper handler: position inside the invocation
    event,      \* scraper handler: body of the event
    contributors_left,      \* contributors fetched and still to be processed
    enriched_contributors,  \* contributors whose details were fetched
    caught,     \* exception caught by the handler's except block
    response,   \* what the invocation ended with: a response or an exception
    github_calls,   \* log of the requests the handler sent to GitHub
    processed,  \* PROCESSED_JOBS counters, per lane and status
    cycles,     \* number of monitoring cycles run (bounds the run)
    workers,    \* rq workers as Worker.all reports them
    clock,      \* datetime.now() of the monitor, in seconds
    issues,     \* what the last check_worker_health returned, and when
    advances    \* number of clock steps taken (bounds the run)

storeVars == <<table, now, pc, call, cur, res, puts, saved, ncalls>>
flowVars == <<path, fpc, limit, msg0, repo, logged_in, github_result,
              linkedin_result, final_response, messages, active, triggered,
              lookups, requests, trace, outcome>>
queueVars == <<jobs, queues, finished_registry, failed_registry, today, running,
               cancelling, inspecting, report, requested, executed, nops>>
apiVars == <<responses, coordinator_calls>>
scraperVars == <<hpc, event, contributors_left, enriched_contributors, caught, response,
                 github_calls>>
monitorVars == <<processed, cycles, workers, clock, issues, advances>>
vars == <<storeVars, flowVars, queueVars, apiVars, scraperVars, monitorVars>>

(***************************************************************************)
(* Part I: session state store.                                            *)
(***************************************************************************)

\* datetime.now().isoformat(): seconds, then the microseconds unless they are 0
isoformat(t) ==
    IF t % TicksPerSec = 0 THEN <<t \div TicksPerSec>>
    ELSE <<t \div TicksPerSec, t % TicksPerSec>>

\* datetime.fromisoformat
fromisoformat(s) ==
    IF Len(s) = 1 THEN s[1] * TicksPerSec ELSE s[1] * TicksPerSec + s[2]

\* order of DynamoDB string sort keys: lexicographic, a proper prefix sorts first
StrLess(a, b) ==
    \/ a[1] < b[1]
    \/ /\ a[1] = b[1]
       /\ \/ Len(a) < Len(b)
          \/ Len(a) = 2 /\ Len(b) = 2 /\ a[2] < b[2]

\* str(state) as stored in the item, and eval(...) of it
StrOf(state) == <<"repr", state>>
Eval(s) == s[2]

OrEmpty(x) == IF x = None \/ x = EmptyDict THEN EmptyDict ELSE x

create_state_put_params(session_id, state, t) ==
    [session_id |-> session_id,
     timestamp |-> isoformat(t),
     state |-> StrOf(state),
     ttl |-> (t \div TicksPerSec) + DefaultTTL]

\* faulty variant: a conditional put that keeps the item already stored under
\* the key
put_item_if_absent(tbl, item) ==
    IF \E i \in tbl : i.session_id = item.session_id /\ i.timestamp = item.timestamp
    THEN tbl ELSE tbl \cup {item}

\* table.put_item(Item=...): no ConditionExpression, the item with the same
\* primary key (session_id, timestamp) is replaced
put_item(tbl, item) ==
    {i \in tbl : ~(i.session_id = item.session_id /\ i.timestamp = item.timestamp)}
        \cup {item}

\* faulty variant: the query scans forward, oldest item first
create_state_query_params_ascending(tbl, session_id) ==
    LET its == {i \in tbl : i.session_id = session_id}
    IN  IF its = {} THEN <<>>
        ELSE <<CHOOSE i \in its : \A j \in its : j = i \/ StrLess(i.timestamp, j.timestamp)>>

\* table.query(session_id = :sid, ScanIndexForward=False, Limit=1)
create_state_query_params(tbl, session_id) ==
    LET its == {i \in tbl : i.session_id = session_id}
    IN  IF its = {} THEN <<>>
        ELSE <<CHOOSE i \in its : \A j \in its : j = i \/ StrLess(j.timestamp, i.timestamp)>>

parse_dynamo_state(item) ==
    [session_id |-> item.session_id,
     timestamp |-> fromisoformat(item.timestamp),
     messages |-> Eval(item.state).messages,
     github_data |-> Eval(item.state).github_data,
     linkedin_data |-> Eval(item.state).linkedin_data,
     final_response |-> Eval(item.state).final_response]

\* the StateData dict built by save_state from its arguments
StateData(msgs, gd, ld, fr) ==
    [messages |-> msgs,
     github_data |-> OrEmpty(gd),
     linkedin_data |-> OrEmpty(ld),
     final_response |-> OrEmpty(fr)]

CompletionMessage == [content |-> "Workflow completed", type |-> "system"]

\* faulty variant: the snapshot is rebuilt from the messages and the new data
update_github_data_only(current_state, gd) ==
    StateData(current_state.messages, gd, None, None)

update_github_data(current_state, gd) ==
    StateData(current_state.messages, gd,
              current_state.linkedin_data, current_state.final_response)

update_linkedin_data(current_state, ld) ==
    StateData(current_state.messages, current_state.github_data,
              ld, current_state.final_response)

finalize_state(current_state, fr) ==
    StateData(Append(current_state.messages, CompletionMessage),
              current_state.github_data, current_state.linkedin_data, fr)

add_message(current_state, m) ==
    StateData(Append(current_state.messages, m),
              current_state.github_data, current_state.linkedin_data,
              current_state.final_response)

UpdateOps == {"update_github_data", "update_linkedin_data", "finalize_state", "add_message"}

\* arguments a caller may pass to each operation
ArgsOf(op) ==
    CASE op = "save_state" ->
            {StateData(<<[content |-> c, type |-> "human"]>>, None, None, None) : c \in {"m1"}}
      [] op = "get_latest_state" -> {None}
      [] op = "update_github_data" -> GithubValues
      [] op = "update_linkedin_data" -> LinkedinValues
      [] op = "finalize_state" -> FinalValues
      [] op = "add_message" -> [content : Contents, type : MessageTypes]

\* the state the operation hands to save_state
StateToSave(c, current_state) ==
    CASE c.op = "save_state" -> c.arg
      [] c.op = "update_github_data" -> update_github_data(current_state, c.arg)
      [] c.op = "update_linkedin_data" -> update_linkedin_data(current_state, c.arg)
      [] c.op = "finalize_state" -> finalize_state(current_state, c.arg)
      [] c.op = "add_message" -> add_message(current_state, c.arg)

NoCall == [op |-> None, session_id |-> None, arg |-> None]

StoreInit ==
    /\ table = {}
    /\ now = 0
    /\ pc = [w \in Writers |-> "idle"]
    /\ call = [w \in Writers |-> NoCall]
    /\ cur = [w \in Writers |-> NotFound]
    /\ res = [w \in Writers |-> [status |-> None, value |-> NotFound]]
    /\ puts = [w \in Writers |-> 0]
    /\ saved = [s \in Sessions |-> 0]
    /\ ncalls = 0

\* what a finished call left with its caller: the value returned or the error raised
Returned(v) == [status |-> "ok", value |-> v]
Raised(e) == [status |-> e, value |-> NotFound]
NoResult == [status |-> None, value |-> NotFound]

\* faulty variant: the error is logged and the call returns normally
reraise_swallowed(e) == Returned(NotFound)

\* "except Exception as e: logger.error(...); raise" of get_latest_state and
\* save_state
reraise(e) == Raised(e)

\* faulty variant: a missing snapshot is not noticed
MissingState_never(found) == FALSE

\* "if not current_state" of the four update operations
MissingState(found) == found = NotFound

\* a caller (handler, worker) starts a StateManager operation
Invoke(w) ==
    /\ pc[w] = "idle"
    /\ ncalls < MaxCalls
    /\ \E op \in UpdateOps \cup {"save_state", "get_latest_state"} :
       \E s \in Sessions : \E a \in ArgsOf(op) :
          /\ call' = [call EXCEPT ![w] = [op |-> op, session_id |-> s, arg |-> a]]
          /\ pc' = [pc EXCEPT ![w] = IF op = "save_state" THEN "save" ELSE "get"]
    /\ res' = [res EXCEPT ![w] = NoResult]
    /\ puts' = [puts EXCEPT ![w] = 0]
    /\ ncalls' = ncalls + 1
    /\ UNCHANGED <<table, now, cur, saved>>
    /\ UNCHANGED <<flowVars, queueVars, apiVars, scraperVars, monitorVars>>

\* the call of writer w ends with result r
Return(w, r) ==
    /\ pc' = [pc EXCEPT ![w] = "idle"]
    /\ res' = [res EXCEPT ![w] = r]
    /\ call' = [call EXCEPT ![w] = NoCall]
    /\ cur' = [cur EXCEPT ![w] = NotFound]

\* StateManager.get_latest_state, and the "if not current_state" of its callers;
\* backendUp = FALSE: table.query raises, the error is logged and re-raised
get_latest_state(w, backendUp) ==
    /\ pc[w] = "get"
    /\ IF ~backendUp
       THEN Return(w, reraise("StorageError"))
       ELSE LET items == create_state_query_params(table, call[w].session_id)
                found == IF Len(items) > 0 THEN parse_dynamo_state(items[1]) ELSE NotFound
            IN  IF call[w].op = "get_latest_state"
                THEN Return(w, Returned(found))
                ELSE IF MissingState(found)
                THEN Return(w, Raised("ValueError"))
                ELSE /\ cur' = [cur EXCEPT ![w] = found]
                     /\ pc' = [pc EXCEPT ![w] = "save"]
                     /\ UNCHANGED <<res, call>>
    /\ UNCHANGED <<table, now, puts, saved, ncalls>>
    /\ UNCHANGED <<flowVars, queueVars, apiVars, scraperVars, monitorVars>>

\* StateManager.save_state: one put_item request; backendUp = FALSE: put_item
\* raises, the error is logged and re-raised to the caller
save_state(w, backendUp) ==
    /\ pc[w] = "save"
    /\ puts' = [puts EXCEPT ![w] = @ + 1]
    /\ IF ~backendUp
       THEN /\ Return(w, reraise("StorageError"))
            /\ UNCHANGED <<table, saved>>
       ELSE /\ table' = put_item(table,
                   create_state_put_params(call[w].session_id,
                                           StateToSave(call[w], cur[w]), now))
            /\ saved' = [saved EXCEPT ![call[w].session_id] = @ + 1]
            /\ Return(w, Returned(NotFound))
    /\ UNCHANGED <<now, ncalls>>
    /\ UNCHANGED <<flowVars, queueVars, apiVars, scraperVars, monitorVars>>

\* the wall clock advances
Tick ==
    /\ now < MaxTime
    /\ now' = now + 1
    /\ UNCHANGED <<table, pc, call, cur, res, puts, saved, ncalls>>
    /\ UNCHANGED <<flowVars, queueVars, apiVars, scraperVars, monitorVars>>

StoreNext ==
    \/ \E w \in Writers : Invoke(w)
    \/ \E w \in Writers : \E up \in BOOLEAN : get_latest_state(w, up)
    \/ \E w \in Writers : \E up \in BOOLEAN : save_state(w, up)
    \/ Tick

(***************************************************************************)
(* Part II: one enrichment run.                                            *)
(***************************************************************************)
Paths == {"execute_task", "process", "workflow"}
Blogs == {None, "u1", "u2"}
Infos == {"i1", "i2"}
FoundUrl == "u3"
Outcomes == {"login_timeout", "nothing"} \cup Infos

NoneValue == [kind |-> "None"]
EmptyValue == [kind |-> "{}"]
Truthy(x) == x.kind \notin {"None", "{}"}

Min(a, b) == IF a <= b THEN a ELSE b

\* answers of the GitHub API to the contributors request: per entry the
\* status of the user-detail request and the "blog" field of the user
ApiEntries == [blog : Blogs, user_ok : BOOLEAN]
ApiData == UNION {[1..n -> ApiEntries] : n \in 0..MaxProfiles}

RECURSIVE Contributors(_, _, _)
Contributors(data, n, i) ==
    IF i > n THEN <<>>
    ELSE (IF data[i].user_ok
          THEN <<[username |-> i, linkedin_url |-> data[i].blog]>>
          ELSE <<>>) \o Contributors(data, n, i + 1)

\* GitHubScraper.get_contributors on a 200 answer: contributors_data[:limit],
\* entries whose user-detail request fails are left out
get_contributors(data, lim) == Contributors(data, Min(lim, Len(data)), 1)

\* "/" not in repo or len(repo.split("/")) != 2
MalformedRepo(r) == r.parts # 2

\* texts the LLM may answer with: the number of "/"-separated parts, whether
\* one of them is empty ("owner/"), and whether GitHub knows the repository
Repos == {r \in [parts : 1..3, blank : BOOLEAN, exists : BOOLEAN] :
            (r.parts # 2 \/ r.blank) => ~r.exists}

\* is_logged_in before lookup k, given the outcomes of the lookups before it
LoggedBefore(l0, outs, k) == l0 \/ \E j \in 1..(k - 1) : outs[j] # "login_timeout"

\* login can only time out while the scraper is not logged in
ValidOutcomes(l0, outs) ==
    \A k \in DOMAIN outs : outs[k] = "login_timeout" => ~LoggedBefore(l0, outs, k)

OutcomeVectors(l0, n) == {outs \in [1..n -> Outcomes] : ValidOutcomes(l0, outs)}

\* CoordinatorAgent._get_linkedin_from_url: every exception becomes None
get_linkedin_from_url(url, o) ==
    IF o \in Infos THEN [kind |-> "profile", profile_url |-> url, info |-> o]
    ELSE [kind |-> "None", profile_url |-> None, info |-> None]

\* LinkedInScraper.find_profile: login() runs outside the try block
find_profile(o) ==
    IF o = "login_timeout" THEN [kind |-> "raised", profile_url |-> None, info |-> None]
    ELSE IF o \in Infos THEN [kind |-> "profile", profile_url |-> FoundUrl, info |-> o]
    ELSE [kind |-> "None", profile_url |-> None, info |-> None]

\* the lookup execute_task schedules for one contributor
LookupTask(github_profile, o) ==
    IF github_profile.linkedin_url # None
    THEN get_linkedin_from_url(github_profile.linkedin_url, o)
    ELSE find_profile(o)

LookupKind(github_profile) ==
    IF github_profile.linkedin_url # None THEN "direct" ELSE "fallback"

\* DataProcessor.process_profiles: zip of the two lists
process_profiles(github_profiles, linkedin_profiles) ==
    [i \in 1..Min(Len(github_profiles), Len(linkedin_profiles)) |->
        [github_data |-> github_profiles[i], linkedin_data |-> linkedin_profiles[i]]]

\* GitHubAgent.process, after validation: the enriched profiles
_extract_social_urls(profile) == [linkedin |-> profile.linkedin_url]

GitHubAgentResult(r, contributors) ==
    [kind |-> "dict",
     repository |-> r,
     profiles |-> [i \in 1..Len(contributors) |->
                     [github_username |-> contributors[i].username,
                      social_urls |-> _extract_social_urls(contributors[i])]]]

HasLinkedin(profile) == profile.social_urls.linkedin # None

\* the linkedin_urls list built by process and by github_node, with the
\* contributor each URL comes from
RECURSIVE LinkedinEntries(_, _)
LinkedinEntries(profs, i) ==
    IF i > Len(profs) THEN <<>>
    ELSE (IF HasLinkedin(profs[i])
          THEN <<[entity |-> profs[i].github_username,
                  url |-> profs[i].social_urls.linkedin]>>
          ELSE <<>>) \o LinkedinEntries(profs, i + 1)

linkedin_urls(gr) ==
    LET es == LinkedinEntries(gr.profiles, 1) IN [i \in 1..Len(es) |-> es[i].url]

\* LinkedInAgent.process: one entry per URL, none when the scraper returns None
RECURSIVE ProfilesData(_, _, _)
ProfilesData(urls, outs, i) ==
    IF i > Len(urls) THEN <<>>
    ELSE (IF outs[i] = "login_timeout"
          THEN <<[linkedin_url |-> urls[i], error |-> TRUE, info |-> None]>>
          ELSE IF outs[i] \in Infos
          THEN <<[linkedin_url |-> urls[i], error |-> FALSE, info |-> outs[i]]>>
          ELSE <<>>) \o ProfilesData(urls, outs, i + 1)

LinkedInAgentResult(urls, outs) ==
    [kind |-> "dict", profiles |-> ProfilesData(urls, outs, 1)]

\* linkedin_profiles_map: by URL, entries with an error left out, last one wins
linkedin_profiles_map(lr) ==
    IF ~Truthy(lr) THEN [u \in {} |-> None]
    ELSE LET ok == {i \in 1..Len(lr.profiles) : ~lr.profiles[i].error}
             keys == {lr.profiles[i].linkedin_url : i \in ok}
         IN  [u \in keys |->
                 lr.profiles[CHOOSE i \in ok :
                      /\ lr.profiles[i].linkedin_url = u
                      /\ \A j \in ok : lr.profiles[j].linkedin_url = u => j <= i]]

NoLinkedinInfo == [present |-> FALSE, url |-> None, info |-> None]

\* faulty variant: only the entities found in the LinkedIn map are listed
_merge_results_only_enriched(gr, lr) ==
    LET map == linkedin_profiles_map(lr)
        keep == SelectSeq(gr.profiles,
                    LAMBDA p : HasLinkedin(p) /\ p.social_urls.linkedin \in DOMAIN map)
        profs == [i \in 1..Len(keep) |->
                    [github_info |-> [username |-> keep[i].github_username],
                     social_urls |-> keep[i].social_urls,
                     linkedin_info |-> [present |-> TRUE,
                                        url |-> keep[i].social_urls.linkedin,
                                        info |-> map[keep[i].social_urls.linkedin].info]]]
    IN  [kind |-> "dict",
         repository |-> gr.repository,
         total_profiles |-> Len(profs),
         profiles_with_linkedin |-> Len(profs),
         profiles |-> profs]

\* faulty variant: the i-th LinkedIn result is attached to the i-th GitHub profile
_merge_results_positional(gr, lr) ==
    LET n == IF Truthy(lr) THEN Len(lr.profiles) ELSE 0
        merged(i) ==
            [github_info |-> [username |-> gr.profiles[i].github_username],
             social_urls |-> gr.profiles[i].social_urls,
             linkedin_info |->
                 IF i <= n /\ ~lr.profiles[i].error
                 THEN [present |-> TRUE,
                       url |-> lr.profiles[i].linkedin_url,
                       info |-> lr.profiles[i].info]
                 ELSE NoLinkedinInfo]
        profs == [i \in 1..Len(gr.profiles) |-> merged(i)]
    IN  [kind |-> "dict",
         repository |-> gr.repository,
         total_profiles |-> Len(profs),
         profiles_with_linkedin |->
             Cardinality({i \in 1..Len(profs) : profs[i].linkedin_info.present}),
         profiles |-> profs]

\* CoordinatorAgent._merge_results
_merge_results(gr, lr) ==
    LET map == linkedin_profiles_map(lr)
        merged(p) ==
            [github_info |-> [username |-> p.github_username],
             social_urls |-> p.social_urls,
             linkedin_info |->
                 IF HasLinkedin(p) /\ p.social_urls.linkedin \in DOMAIN map
                 THEN [present |-> TRUE,
                       url |-> p.social_urls.linkedin,
                       info |-> map[p.social_urls.linkedin].info]
                 ELSE NoLinkedinInfo]
        profs == [i \in 1..Len(gr.profiles) |-> merged(gr.profiles[i])]
    IN  [kind |-> "dict",
         repository |-> gr.repository,
         total_profiles |-> Len(profs),
         profiles_with_linkedin |->
             Cardinality({i \in 1..Len(profs) : profs[i].linkedin_info.present}),
         profiles |-> profs]

\* what GitHubAgent.process can return or raise for repository r
GitHubAgentOutcomes(r, lim) ==
    IF ~r.exists
    THEN {[error |-> "ValueError: not found", requests |-> <<"validate_repository">>,
           result |-> NoneValue]}
    ELSE {[error |-> "Exception: GitHub API error",
           requests |-> <<"validate_repository", "get_contributors">>,
           result |-> NoneValue]}
         \cup
         {[error |-> None,
           requests |-> <<"validate_repository", "get_contributors">>,
           result |-> GitHubAgentResult(r, get_contributors(data, lim))] :
              data \in ApiData}

\* the lookups LinkedInAgent.process issues for the URLs taken from gr
DirectLookups(gr, n) ==
    LET es == LinkedinEntries(gr.profiles, 1)
    IN  [i \in 1..n |-> [entity |-> es[i].entity, kind |-> "direct"]]

HumanMessage == [type |-> "human", name |-> "user", decision |-> None,
                 repository |-> None, urls |-> <<>>]
OtherMessage == [type |-> "other", name |-> "user", decision |-> None,
                 repository |-> None, urls |-> <<>>]
FunctionMessage(name, decision, repository, urls) ==
    [type |-> "function", name |-> name, decision |-> decision,
     repository |-> repository, urls |-> urls]

FlowOff ==
    /\ path = None /\ fpc = "off" /\ limit = 0 /\ msg0 = None
    /\ repo = None /\ logged_in = FALSE
    /\ github_result = NoneValue /\ linkedin_result = NoneValue
    /\ final_response = NoneValue /\ messages = <<>>
    /\ active = {} /\ triggered = {}
    /\ lookups = <<>> /\ requests = <<>> /\ trace = <<>> /\ outcome = None

FlowInit ==
    /\ path \in Paths
    /\ limit \in 1..MaxProfiles
    /\ logged_in \in BOOLEAN
    /\ msg0 \in (IF path = "workflow" THEN {"human", "other"} ELSE {"none"})
    /\ messages = (IF path # "workflow" THEN <<>>
                   ELSE IF msg0 = "human" THEN <<HumanMessage>> ELSE <<OtherMessage>>)
    /\ fpc = (IF path = "workflow" THEN "graph" ELSE "start")
    /\ active = (IF path = "workflow" THEN {"coordinator_node"} ELSE {})
    /\ triggered = {}
    /\ repo = [parts |-> 0, blank |-> FALSE, exists |-> FALSE]
    /\ github_result = (IF path = "workflow" THEN EmptyValue ELSE NoneValue)
    /\ linkedin_result = (IF path = "workflow" THEN EmptyValue ELSE NoneValue)
    /\ final_response = (IF path = "workflow" THEN EmptyValue ELSE NoneValue)
    /\ lookups = <<>> /\ requests = <<>> /\ trace = <<>> /\ outcome = None

\* an exception leaves the coordinator (sequential paths)
Raise(err) ==
    /\ outcome' = err
    /\ fpc' = "failed"

(* ---- agents/coordinator.py: CoordinatorAgent.execute_task ---- *)
(* ---- agents/new_coordinator.py: CoordinatorAgent.process ---- *)

\* the LLM names the repository, then the owner/repo format check
extract_repository_info ==
    /\ path \in {"execute_task", "process"}
    /\ fpc = "start"
    /\ trace' = Append(trace, "resolve")
    /\ \E r \in Repos :
          /\ repo' = r
          /\ IF MalformedRepo(r)
             THEN Raise("ValueError: invalid format")
             ELSE /\ fpc' = (IF path = "execute_task" THEN "validate" ELSE "fetch")
                  /\ outcome' = outcome
    /\ UNCHANGED <<path, limit, msg0, logged_in, github_result, linkedin_result,
                   final_response, messages, active, triggered, lookups, requests>>
    /\ UNCHANGED <<storeVars, queueVars, apiVars, scraperVars, monitorVars>>

\* execute_task: github_scraper.validate_repository(repo)
validate_repository ==
    /\ path = "execute_task"
    /\ fpc = "validate"
    /\ requests' = Append(requests, "validate_repository")
    /\ IF repo.exists
       THEN fpc' = "fetch" /\ outcome' = outcome
       ELSE Raise("ValueError: not found")
    /\ UNCHANGED <<path, limit, msg0, repo, logged_in, github_result, linkedin_result,
                   final_response, messages, active, triggered, lookups, trace>>
    /\ UNCHANGED <<storeVars, queueVars, apiVars, scraperVars, monitorVars>>

\* execute_task: github_scraper.get_contributors(repo, limit=limit)
et_get_contributors ==
    /\ path = "execute_task"
    /\ fpc = "fetch"
    /\ trace' = Append(trace, "fetch")
    /\ requests' = Append(requests, "get_contributors")
    /\ \/ /\ Raise("Exception: GitHub API error")
          /\ UNCHANGED github_result
       \/ \E data \in ApiData :
          /\ github_result' = [kind |-> "list", repository |-> repo,
                               profiles |-> get_contributors(data, limit)]
          /\ fpc' = "lookup"
          /\ outcome' = outcome
    /\ UNCHANGED <<path, limit, msg0, repo, logged_in, linkedin_result,
                   final_response, messages, active, triggered, lookups>>
    /\ UNCHANGED <<storeVars, queueVars, apiVars, scraperVars, monitorVars>>

\* execute_task: one lookup task per contributor, then asyncio.gather(*tasks)
et_gather_linkedin_tasks ==
    /\ path = "execute_task"
    /\ fpc = "lookup"
    /\ trace' = Append(trace, "enrich")
    /\ LET gps == github_result.profiles
           n == Len(gps)
       IN  \E outs \in OutcomeVectors(logged_in, n) :
           LET lps == [i \in 1..n |-> LookupTask(gps[i], outs[i])]
           IN  /\ linkedin_result' = [kind |-> "list", profiles |-> lps]
               /\ lookups' = [i \in 1..n |->
                                 [entity |-> gps[i].username, kind |-> LookupKind(gps[i])]]
               /\ logged_in' = LoggedBefore(logged_in, outs, n + 1)
               /\ IF \E i \in 1..n : lps[i].kind = "raised"
                  THEN Raise("TimeoutException: login")
                  ELSE fpc' = "merge" /\ outcome' = outcome
    /\ UNCHANGED <<path, limit, msg0, repo, github_result, final_response,
                   messages, active, triggered, requests>>
    /\ UNCHANGED <<storeVars, queueVars, apiVars, scraperVars, monitorVars>>

\* execute_task: data_processor.process_profiles(github_profiles, linkedin_profiles)
et_process_profiles ==
    /\ path = "execute_task"
    /\ fpc = "merge"
    /\ trace' = Append(trace, "merge")
    /\ final_response' =
          [kind |-> "list",
           profiles |-> process_profiles(github_result.profiles, linkedin_result.profiles)]
    /\ fpc' = "done"
    /\ outcome' = "completed"
    /\ UNCHANGED <<path, limit, msg0, repo, logged_in, github_result, linkedin_result,
                   messages, active, triggered, lookups, requests>>
    /\ UNCHANGED <<storeVars, queueVars, apiVars, scraperVars, monitorVars>>

\* process: github_agent.process, then the linkedin_urls list decides the next step
github_agent_process ==
    /\ path = "process"
    /\ fpc = "fetch"
    /\ trace' = Append(trace, "fetch")
    /\ \E o \in GitHubAgentOutcomes(repo, limit) :
          /\ requests' = requests \o o.requests
          /\ IF o.error # None
             THEN Raise(o.error) /\ UNCHANGED github_result
             ELSE /\ github_result' = o.result
                  /\ fpc' = (IF Len(linkedin_urls(o.result)) > 0 THEN "lookup" ELSE "merge")
                  /\ outcome' = outcome
    /\ UNCHANGED <<path, limit, msg0, repo, logged_in, linkedin_result,
                   final_response, messages, active, triggered, lookups>>
    /\ UNCHANGED <<storeVars, queueVars, apiVars, scraperVars, monitorVars>>

\* process: linkedin_agent.process({"profile_urls": linkedin_urls})
linkedin_agent_process ==
    /\ path = "process"
    /\ fpc = "lookup"
    /\ trace' = Append(trace, "enrich")
    /\ LET urls == linkedin_urls(github_result)
       IN  \E outs \in OutcomeVectors(logged_in, Len(urls)) :
              /\ linkedin_result' = LinkedInAgentResult(urls, outs)
              /\ lookups' = lookups \o DirectLookups(github_result, Len(urls))
              /\ logged_in' = LoggedBefore(logged_in, outs, Len(urls) + 1)
    /\ fpc' = "merge"
    /\ UNCHANGED <<path, limit, msg0, repo, github_result, final_response,
                   messages, active, triggered, requests, outcome>>
    /\ UNCHANGED <<storeVars, queueVars, apiVars, scraperVars, monitorVars>>

\* process: self._merge_results(github_result, linkedin_result)
merge_results ==
    /\ path = "process"
    /\ fpc = "merge"
    /\ trace' = Append(trace, "merge")
    /\ final_response' = _merge_results(github_result, linkedin_result)
    /\ fpc' = "done"
    /\ outcome' = "completed"
    /\ UNCHANGED <<path, limit, msg0, repo, logged_in, github_result, linkedin_result,
                   messages, active, triggered, lookups, requests>>
    /\ UNCHANGED <<storeVars, queueVars, apiVars, scraperVars, monitorVars>>

(* ---- agents/workflow.py: create_workflow ---- *)

\* workflow.add_edge(...): the unconditional edges of the graph
StaticEdges ==
    {<<"coordinator_node", "github_node">>,
     <<"github_node", "linkedin_node">>,
     <<"linkedin_node", "merge_node">>}

\* github_conditional, evaluated on the messages the node left
github_conditional(msgs) ==
    LET last_message == msgs[Len(msgs)]
    IN  IF last_message.type = "function" /\ last_message.decision = "linkedin"
        THEN "linkedin_node"
        ELSE "merge_node"

\* linkedin_conditional
linkedin_conditional(msgs) == "merge_node"

ConditionalEdges(n, msgs) ==
    CASE n = "github_node" -> {github_conditional(msgs)}
      [] n = "linkedin_node" -> {linkedin_conditional(msgs)}
      [] OTHER -> {}

\* the nodes triggered when node n has finished: the targets of its
\* unconditional edges and the target its conditional edge selects
Successors(n, msgs) ==
    {e[2] : e \in {d \in StaticEdges : d[1] = n}} \cup ConditionalEdges(n, msgs)

\* the graph engine after node n returned: the next superstep starts when
\* every node of the current one has finished, the run ends when none is triggered
NodeReturns(n, msgs) ==
    LET act == active \ {n}
        trig == triggered \cup Successors(n, msgs)
    IN  IF act # {}
        THEN /\ active' = act /\ triggered' = trig
             /\ fpc' = fpc /\ outcome' = outcome
        ELSE /\ active' = trig /\ triggered' = {}
             /\ fpc' = (IF trig = {} THEN "done" ELSE fpc)
             /\ outcome' = (IF trig = {} THEN "completed" ELSE outcome)

\* the node raised: the exception leaves ainvoke
NodeRaises(err) ==
    /\ outcome' = err
    /\ fpc' = "failed"
    /\ active' = {}
    /\ triggered' = {}

coordinator_node ==
    /\ path = "workflow"
    /\ "coordinator_node" \in active
    /\ trace' = Append(trace, "resolve")
    /\ IF messages[Len(messages)].type # "human"
       THEN /\ NodeReturns("coordinator_node", messages)
            /\ UNCHANGED <<repo, messages>>
       ELSE \E r \in Repos :
            /\ repo' = r
            /\ IF MalformedRepo(r)
               THEN NodeRaises("ValueError: invalid format") /\ UNCHANGED messages
               ELSE LET msgs == Append(messages,
                                   FunctionMessage("coordinator", "github", r, <<>>))
                    IN  /\ messages' = msgs
                        /\ NodeReturns("coordinator_node", msgs)
    /\ UNCHANGED <<path, limit, msg0, logged_in, github_result, linkedin_result,
                   final_response, lookups, requests>>
    /\ UNCHANGED <<storeVars, queueVars, apiVars, scraperVars, monitorVars>>

github_node ==
    /\ path = "workflow"
    /\ "github_node" \in active
    /\ trace' = Append(trace, "fetch")
    /\ IF messages[Len(messages)].type # "function"
       THEN /\ NodeRaises("ValueError: expected function message")
            /\ UNCHANGED <<messages, github_result, requests>>
       ELSE \E o \in GitHubAgentOutcomes(messages[Len(messages)].repository, WorkflowLimit) :
            /\ requests' = requests \o o.requests
            /\ IF o.error # None
               THEN NodeRaises(o.error) /\ UNCHANGED <<messages, github_result>>
               ELSE LET urls == linkedin_urls(o.result)
                        msgs == Append(messages,
                                   IF Len(urls) > 0
                                   THEN FunctionMessage("github", "linkedin", None, urls)
                                   ELSE FunctionMessage("github", "end", None, <<>>))
                    IN  /\ github_result' = o.result
                        /\ messages' = msgs
                        /\ NodeReturns("github_node", msgs)
    /\ UNCHANGED <<path, limit, msg0, repo, logged_in, linkedin_result,
                   final_response, lookups>>
    /\ UNCHANGED <<storeVars, queueVars, apiVars, scraperVars, monitorVars>>

linkedin_node ==
    /\ path = "workflow"
    /\ "linkedin_node" \in active
    /\ trace' = Append(trace, "enrich")
    /\ IF messages[Len(messages)].type # "function"
       THEN /\ NodeRaises("ValueError: expected function message")
            /\ UNCHANGED <<messages, linkedin_result, lookups, logged_in>>
       ELSE LET urls == messages[Len(messages)].urls
                msgs == Append(messages, FunctionMessage("linkedin", "merge", None, <<>>))
            IN  \E outs \in OutcomeVectors(logged_in, Len(urls)) :
                /\ linkedin_result' = LinkedInAgentResult(urls, outs)
                /\ lookups' = lookups \o DirectLookups(github_result, Len(urls))
                /\ logged_in' = LoggedBefore(logged_in, outs, Len(urls) + 1)
                /\ messages' = msgs
                /\ NodeReturns("linkedin_node", msgs)
    /\ UNCHANGED <<path, limit, msg0, repo, github_result, final_response, requests>>
    /\ UNCHANGED <<storeVars, queueVars, apiVars, scraperVars, monitorVars>>

merge_node ==
    /\ path = "workflow"
    /\ "merge_node" \in active
    /\ trace' = Append(trace, "merge")
    /\ IF ~Truthy(github_result)
       THEN /\ NodeRaises("KeyError: profiles")
            /\ UNCHANGED <<messages, final_response>>
       ELSE LET msgs == Append(messages, FunctionMessage("merge", "end", None, <<>>))
            IN  /\ final_response' = _merge_results(github_result, linkedin_result)
                /\ messages' = msgs
                /\ NodeReturns("merge_node", msgs)
    /\ UNCHANGED <<path, limit, msg0, repo, logged_in, github_result,
                   linkedin_result, lookups, requests>>
    /\ UNCHANGED <<storeVars, queueVars, apiVars, scraperVars, monitorVars>>

FlowNext ==
    \/ extract_repository_info
    \/ validate_repository
    \/ et_get_contributors
    \/ et_gather_linkedin_tasks
    \/ et_process_profiles
    \/ github_agent_process
    \/ linkedin_agent_process
    \/ merge_results
    \/ coordinator_node
    \/ github_node
    \/ linkedin_node
    \/ merge_node

(***************************************************************************)
(* Part III (specification QueueSpec): the priority job queue,             *)
(* utils/queue.py, over the rq broker shared with the workers.             *)
(***************************************************************************)
MaxDay == 1
MaxOps == 2

Lanes == {"high", "default", "low"}
Priorities == Lanes \cup {"urgent"}
JobIds == {"j1", "j2"}
JobResults == {"r1"}
NoDate == <<>>
NoJob == [status |-> "none", origin |-> None, ended_at |-> NoDate, result |-> None]

Remove(seq, ids) == SelectSeq(seq, LAMBDA x : x \notin ids)

\* faulty variant: every job goes to the default lane
QueueOf_always_default(priority) == "default"

\* enqueue_job: {'high': ..., 'default': ..., 'low': ...}.get(priority, default_queue)
QueueOf(priority) == IF priority \in Lanes THEN priority ELSE "default"

\* faulty variant: every job that exists can be cancelled
Cancellable_whatever_status(status) == status # "none"

\* cancel_job: job.get_status() == 'queued'
Cancellable(status) == status = "queued"

\* what a finished JobManager call did: the status it read, what it returned
NoReport ==
    [op |-> None, job |-> None, read |-> None,
     returned |-> FALSE, has_result |-> FALSE, result |-> None,
     days |-> 0, count |-> 0, errors |-> FALSE]

Idle == [pc |-> "idle", job |-> None, status |-> None]

QueueInit ==
    /\ jobs = [j \in JobIds |-> NoJob]
    /\ queues = [l \in Lanes |-> <<>>]
    /\ finished_registry = [l \in Lanes |-> {}]
    /\ failed_registry = [l \in Lanes |-> {}]
    /\ today = 0
    /\ running = {}
    /\ cancelling = Idle
    /\ inspecting = Idle
    /\ report = NoReport
    /\ requested = [j \in JobIds |-> None]
    /\ executed = {}
    /\ nops = 0

\* JobManager.enqueue_job with a fresh job id (job_<uuid4>)
enqueue_job(j, priority) ==
    /\ requested[j] = None
    /\ j = "j2" => requested["j1"] # None
    /\ jobs' = [jobs EXCEPT ![j] = [status |-> "queued", origin |-> QueueOf(priority),
                                    ended_at |-> NoDate, result |-> None]]
    /\ queues' = [queues EXCEPT ![QueueOf(priority)] = Append(@, j)]
    /\ requested' = [requested EXCEPT ![j] = priority]
    /\ UNCHANGED <<finished_registry, failed_registry, today, running, cancelling,
                   inspecting, report, executed, nops>>
    /\ UNCHANGED <<storeVars, flowVars, apiVars, scraperVars, monitorVars>>

\* a worker polling the lane pulls the job at its head and starts it
worker_dequeue(lane) ==
    /\ queues[lane] # <<>>
    /\ LET j == Head(queues[lane])
       IN  /\ jobs' = [jobs EXCEPT ![j].status = "started"]
           /\ running' = running \cup {j}
           /\ executed' = executed \cup {j}
    /\ queues' = [queues EXCEPT ![lane] = Tail(@)]
    /\ UNCHANGED <<finished_registry, failed_registry, today, cancelling,
                   inspecting, report, requested, nops>>
    /\ UNCHANGED <<storeVars, flowVars, apiVars, scraperVars, monitorVars>>

\* the worker ends the job it executes: finished with a result, or failed;
\* it records the outcome whatever the status of the record has become
worker_perform_job(j, success) ==
    /\ j \in running
    /\ running' = running \ {j}
    /\ LET q == jobs[j].origin
       IN  IF success
           THEN \E r \in JobResults :
                /\ jobs' = [jobs EXCEPT ![j] = [status |-> "finished", origin |-> q,
                                                ended_at |-> <<today>>, result |-> r]]
                /\ finished_registry' = [finished_registry EXCEPT ![q] = @ \cup {j}]
                /\ UNCHANGED failed_registry
           ELSE /\ jobs' = [jobs EXCEPT ![j] = [status |-> "failed", origin |-> q,
                                                ended_at |-> <<today>>, result |-> None]]
                /\ failed_registry' = [failed_registry EXCEPT ![q] = @ \cup {j}]
                /\ UNCHANGED finished_registry
    /\ UNCHANGED <<queues, today, cancelling, inspecting, report, requested,
                   executed, nops>>
    /\ UNCHANGED <<storeVars, flowVars, apiVars, scraperVars, monitorVars>>

\* the clock of the broker and of JobManager advances by a day
NextDay ==
    /\ today < MaxDay
    /\ today' = today + 1
    /\ UNCHANGED <<jobs, queues, finished_registry, failed_registry, running,
                   cancelling, inspecting, report, requested, executed, nops>>
    /\ UNCHANGED <<storeVars, flowVars, apiVars, scraperVars, monitorVars>>

\* cancel_job, first half: Job.fetch and job.get_status(); NoSuchJobError is
\* caught, a status other than 'queued' falls through to return False
cancel_job_fetch(j) ==
    /\ cancelling.pc = "idle" /\ inspecting.pc = "idle"
    /\ nops < MaxOps
    /\ nops' = nops + 1
    /\ IF Cancellable(jobs[j].status)
       THEN /\ cancelling' = [pc |-> "cancel", job |-> j, status |-> jobs[j].status]
            /\ UNCHANGED report
       ELSE /\ report' = [NoReport EXCEPT !.op = "cancel_job",
                              !.job = j, !.read = jobs[j].status, !.returned = FALSE]
            /\ UNCHANGED cancelling
    /\ UNCHANGED <<jobs, queues, finished_registry, failed_registry, today, running,
                   inspecting, requested, executed>>
    /\ UNCHANGED <<storeVars, flowVars, apiVars, scraperVars, monitorVars>>

\* cancel_job, second half: job.cancel() and return True; rq refuses a job that
\* is already canceled (InvalidJobOperation, caught: return False), otherwise it
\* takes the job out of its queue and registries and sets its status
cancel_job_cancel ==
    /\ cancelling.pc = "cancel"
    /\ LET j == cancelling.job
           r == [NoReport EXCEPT !.op = "cancel_job", !.job = j,
                     !.read = cancelling.status]
       IN  IF jobs[j].status = "canceled"
           THEN /\ report' = [r EXCEPT !.returned = FALSE]
                /\ UNCHANGED <<jobs, queues, finished_registry, failed_registry>>
           ELSE /\ jobs' = [jobs EXCEPT ![j].status = "canceled"]
                /\ queues' = [l \in Lanes |-> Remove(queues[l], {j})]
                /\ finished_registry' = [l \in Lanes |-> finished_registry[l] \ {j}]
                /\ failed_registry' = [l \in Lanes |-> failed_registry[l] \ {j}]
                /\ report' = [r EXCEPT !.returned = TRUE]
    /\ cancelling' = Idle
    /\ UNCHANGED <<today, running, inspecting, requested, executed, nops>>
    /\ UNCHANGED <<storeVars, flowVars, apiVars, scraperVars, monitorVars>>

\* get_job_status, first half: Job.fetch (NoSuchJobError leaves the call) and
\* the status dict with job.get_status() and the timestamps
get_job_status_fetch(j) ==
    /\ cancelling.pc = "idle" /\ inspecting.pc = "idle"
    /\ nops < MaxOps
    /\ nops' = nops + 1
    /\ IF jobs[j].status = "none"
       THEN /\ report' = [NoReport EXCEPT !.op = "NoSuchJobError",
                              !.job = j, !.read = "none"]
            /\ UNCHANGED inspecting
       ELSE /\ inspecting' = [pc |-> "result", job |-> j, status |-> jobs[j].status]
            /\ UNCHANGED report
    /\ UNCHANGED <<jobs, queues, finished_registry, failed_registry, today, running,
                   cancelling, requested, executed>>
    /\ UNCHANGED <<storeVars, flowVars, apiVars, scraperVars, monitorVars>>

\* faulty variant: the result is reported whenever the record holds one or not
ResultEntry_always(rec) == [has_result |-> TRUE, result |-> rec.result]

\* if job.is_finished: status["result"] = job.result
ResultEntry(rec) ==
    IF rec.status = "finished"
    THEN [has_result |-> TRUE, result |-> rec.result]
    ELSE [has_result |-> FALSE, result |-> None]

\* get_job_status, second half: job.is_finished reads the status again
get_job_status_return ==
    /\ inspecting.pc = "result"
    /\ LET j == inspecting.job
           e == ResultEntry(jobs[j])
       IN  report' = [NoReport EXCEPT !.op = "get_job_status", !.job = j,
                          !.read = inspecting.status,
                          !.has_result = e.has_result, !.result = e.result]
    /\ inspecting' = Idle
    /\ UNCHANGED <<jobs, queues, finished_registry, failed_registry, today, running,
                   cancelling, requested, executed, nops>>
    /\ UNCHANGED <<storeVars, flowVars, apiVars, scraperVars, monitorVars>>

\* faulty variant: a finished job is dropped whatever its age
Expired_whatever_age(rec, threshold) == TRUE

\* job.ended_at and job.ended_at < threshold
Expired(rec, threshold) == rec.ended_at # NoDate /\ rec.ended_at[1] < threshold

\* the job ids clean_old_jobs visits: FinishedJobRegistry of the three queues
ScannedJobs == UNION {finished_registry[l] : l \in Lanes}

\* JobManager.clean_old_jobs(days); errs: the jobs whose Job.fetch or delete
\* raises, which is logged and skipped.  job.delete() removes the record and
\* takes the id out of its queue and registries
clean_old_jobs(days, errs) ==
    /\ cancelling.pc = "idle" /\ inspecting.pc = "idle"
    /\ nops < MaxOps
    /\ nops' = nops + 1
    /\ errs \subseteq ScannedJobs
    /\ LET threshold == today - days
           deleted == {j \in ScannedJobs \ errs : Expired(jobs[j], threshold)}
       IN  /\ jobs' = [j \in JobIds |-> IF j \in deleted THEN NoJob ELSE jobs[j]]
           /\ queues' = [l \in Lanes |-> Remove(queues[l], deleted)]
           /\ finished_registry' = [l \in Lanes |-> finished_registry[l] \ deleted]
           /\ failed_registry' = [l \in Lanes |-> failed_registry[l] \ deleted]
           /\ report' = [NoReport EXCEPT !.op = "clean_old_jobs",
                             !.days = days, !.count = Cardinality(deleted),
                             !.errors = (errs # {})]
    /\ UNCHANGED <<today, running, cancelling, inspecting, requested, executed>>
    /\ UNCHANGED <<storeVars, flowVars, apiVars, scraperVars, monitorVars>>

QueueNext ==
    \/ \E j \in JobIds : \E p \in Priorities : enqueue_job(j, p)
    \/ \E l \in Lanes : worker_dequeue(l)
    \/ \E j \in JobIds : \E success \in BOOLEAN : worker_perform_job(j, success)
    \/ NextDay
    \/ \E j \in JobIds : cancel_job_fetch(j)
    \/ cancel_job_cancel
    \/ \E j \in JobIds : get_job_status_fetch(j)
    \/ get_job_status_return
    \/ \E d \in 0..MaxDay : \E errs \in SUBSET JobIds : clean_old_jobs(d, errs)

(***************************************************************************)
(* Part IV (specification ApiSpec): the submission endpoints,              *)
(* lambda/api/handler.py (handler) and main.py (POST /recruit).            *)
(***************************************************************************)
MaxRequests == 2
DefaultLimit == 50
MinLimit == 1
MaxLimit == 100

Missing == "missing"
Descriptions == {"", "contributors of o/r", "GitHub o/r"}
LimitValues == {-1, 0, 1, 100, 101}

\* "github" in self.task_description.lower()
ContainsGithub(d) == d \in {"GitHub o/r"}

\* the body of a request: task_description and limit, either may be left out
\* (limit: <<>> when left out, <<n>> otherwise)
Bodies ==
    [task_description : Descriptions \cup {Missing},
     limit : {<<>>} \cup {<<n>> : n \in LimitValues}]

\* body.get('limit', 50) / limit: int = 50
LimitOf(body) == IF body.limit = <<>> THEN DefaultLimit ELSE body.limit[1]

\* str(uuid4()): a session id no earlier request was given
uuid4 == "uuid" \o ToString(Len(responses) + 1)

\* the messages of the handler's initial_state: plain dicts
InitialState(task_description) ==
    [messages |-> <<[pytype |-> "dict", content |-> task_description, type |-> "human"]>>,
     github_data |-> EmptyDict,
     linkedin_data |-> EmptyDict,
     final_response |-> EmptyDict]

\* msg.dict(): a method of the message classes, which a plain dict does not have
HasDictMethod(msg) == msg.pytype # "dict"

\* the item built by the save_state of lambda/api/handler.py
ApiStateItem(session_id, state, t) ==
    [session_id |-> session_id,
     timestamp |-> isoformat(t),
     state |-> StrOf([messages |-> [i \in DOMAIN state.messages |->
                                       [content |-> state.messages[i].content,
                                        type |-> state.messages[i].type]],
                      github_data |-> state.github_data,
                      linkedin_data |-> state.linkedin_data,
                      final_response |-> state.final_response]),
     ttl |-> (t \div TicksPerSec) + DefaultTTL]

Response(endpoint, body, code, sid, st, reached) ==
    [endpoint |-> endpoint, body |-> body, statusCode |-> code,
     session_id |-> sid, status |-> st, reached_coordinator |-> reached]

\* lambda/api/handler.py: handler.  Every exception ends in the 500 response
api_handler(body) ==
    /\ Len(responses) < MaxRequests
    /\ IF body.task_description = Missing
       THEN /\ responses' = Append(responses,
                   Response("api", body, 500, None, "KeyError", FALSE))
            /\ UNCHANGED table
       ELSE LET session_id == uuid4
                initial_state == InitialState(body.task_description)
            IN  IF \E i \in DOMAIN initial_state.messages :
                      ~HasDictMethod(initial_state.messages[i])
                THEN /\ responses' = Append(responses,
                            Response("api", body, 500, None, "AttributeError", FALSE))
                     /\ UNCHANGED table
                ELSE /\ table' = put_item(table, ApiStateItem(session_id, initial_state, now))
                     /\ responses' = Append(responses,
                            Response("api", body, 202, session_id, "processing", FALSE))
    /\ UNCHANGED coordinator_calls
    /\ UNCHANGED <<now, pc, call, cur, res, puts, saved, ncalls>>
    /\ UNCHANGED <<flowVars, queueVars, scraperVars, monitorVars>>

\* RecruitmentRequest.is_valid_request
is_valid_request(body) ==
    /\ ContainsGithub(body.task_description)
    /\ MinLimit <= LimitOf(body)
    /\ LimitOf(body) <= MaxLimit

\* what coordinator.process ends with, and the status recruit_developers makes
\* of it: a result, ValueError, aiohttp.ClientError, any other exception
ProcessOutcomes ==
    {[ends |-> "result", statusCode |-> 200],
     [ends |-> "ValueError", statusCode |-> 400],
     [ends |-> "ClientError", statusCode |-> 503],
     [ends |-> "Exception", statusCode |-> 500]}

\* main.py: recruit_developers (POST /recruit); the request model requires
\* task_description
recruit_developers(body) ==
    /\ Len(responses) < MaxRequests
    /\ body.task_description # Missing
    /\ IF ~is_valid_request(body)
       THEN /\ responses' = Append(responses,
                   Response("recruit", body, 400, None, "Invalid request", FALSE))
            /\ UNCHANGED coordinator_calls
       ELSE \E o \in ProcessOutcomes :
            /\ coordinator_calls' = Append(coordinator_calls,
                   [task_description |-> body.task_description, limit |-> LimitOf(body)])
            /\ responses' = Append(responses,
                   Response("recruit", body, o.statusCode, None, o.ends, TRUE))
    /\ UNCHANGED <<storeVars, flowVars, queueVars, scraperVars, monitorVars>>

ApiNext ==
    \/ \E body \in Bodies : api_handler(body)
    \/ \E body \in Bodies : recruit_developers(body)

(***************************************************************************)
(* Part V (specification ScraperSpec): one invocation of the GitHub        *)
(* scraper handler, lambda/github_scraper/handler.py, over the session     *)
(* state store.                                                            *)
(***************************************************************************)
HandlerDefaultLimit == 50

StateFaults == {"none", "query", "put_item"}

\* bodies of the event: session_id and repository may be absent, limit is
\* optional
HandlerBodies ==
    [session_id : {"s1", Missing},
     repository : {"o/r", Missing},
     limit : {<<>>, <<1>>}]

\* body.get('limit', 50)
HandlerLimitOf(body) == IF body.limit = <<>> THEN HandlerDefaultLimit ELSE body.limit[1]

\* answers of GitHub to the contributors request: per entry, whether the
\* user-detail request of that contributor succeeds
HandlerApiData == UNION {[1..n -> BOOLEAN] : n \in 0..MaxProfiles}

\* AsyncGitHubClient.get_contributors on a 200 answer: contributors[:limit]
client_get_contributors(data, lim) ==
    [i \in 1..Min(lim, Len(data)) |-> [login |-> i, details_ok |-> data[i]]]

\* what an invocation ends with: the dict returned, with its statusCode and
\* the 'type' of its body, or the exception that left the handler
HandlerResponse(kind, code, e) == [kind |-> kind, statusCode |-> code, type |-> e]

\* one StateManager update operation run to its end by a single caller:
\* get_latest_state, the missing-state check, then save_state; fault names
\* the table request that fails, if any
state_manager_call(tbl, op, sid, arg, t, fault) ==
    IF fault = "query" THEN [status |-> "StorageError", table |-> tbl]
    ELSE LET items == create_state_query_params(tbl, sid)
             found == IF Len(items) > 0 THEN parse_dynamo_state(items[1]) ELSE NotFound
         IN  IF MissingState(found) THEN [status |-> "ValueError", table |-> tbl]
             ELSE IF fault = "put_item" THEN [status |-> "StorageError", table |-> tbl]
             ELSE [status |-> "ok",
                   table |-> put_item(tbl,
                       create_state_put_params(sid,
                           StateToSave([op |-> op, session_id |-> sid, arg |-> arg], found),
                           t))]

ScraperOff ==
    /\ hpc = "start"
    /\ event = [session_id |-> Missing, repository |-> Missing, limit |-> <<>>]
    /\ contributors_left = <<>>
    /\ enriched_contributors = <<>>
    /\ caught = None
    /\ response = HandlerResponse("none", 0, None)
    /\ github_calls = <<>>

\* json.loads(event['body']), body['session_id'], body['repository'],
\* body.get('limit', 50); a missing key raises KeyError inside the try block
handler_parse(body) ==
    /\ hpc = "start"
    /\ event' = body
    /\ IF body.session_id = Missing \/ body.repository = Missing
       THEN caught' = "KeyError" /\ hpc' = "except"
       ELSE caught' = caught /\ hpc' = "processing"
    /\ UNCHANGED <<contributors_left, enriched_contributors, response, github_calls>>
    /\ UNCHANGED <<storeVars, flowVars, queueVars, apiVars, monitorVars>>

\* await state_manager.<op>(...) inside the try block: on success the handler
\* goes on at next_pc, an exception takes it to the except block
handler_state_call(op, arg, fault, next_pc) ==
    LET r == state_manager_call(table, op, event.session_id, arg, now, fault)
    IN  /\ table' = r.table
        /\ saved' = (IF r.status = "ok" THEN [saved EXCEPT ![event.session_id] = @ + 1]
                     ELSE saved)
        /\ IF r.status = "ok"
           THEN hpc' = next_pc /\ caught' = caught
           ELSE hpc' = "except" /\ caught' = r.status
        /\ UNCHANGED <<now, pc, call, cur, res, puts, ncalls>>

\* state_manager.add_message(session_id, "Processing GitHub repository: ...", "system")
handler_processing_message(fault) ==
    /\ hpc = "processing"
    /\ handler_state_call("add_message",
                          [content |-> "Processing GitHub repository", type |-> "system"],
                          fault, "fetch")
    /\ UNCHANGED <<event, contributors_left, enriched_contributors, response, github_calls>>
    /\ UNCHANGED <<flowVars, queueVars, apiVars, monitorVars>>

\* github_client.get_contributors(repo, limit): a status other than 200 raises
handler_get_contributors(status, data) ==
    /\ hpc = "fetch"
    /\ github_calls' = Append(github_calls, [request |-> "contributors", status |-> status])
    /\ IF status = 200
       THEN /\ contributors_left' = client_get_contributors(data, HandlerLimitOf(event))
            /\ hpc' = "details"
            /\ caught' = caught
       ELSE /\ caught' = "Exception"
            /\ hpc' = "except"
            /\ UNCHANGED contributors_left
    /\ UNCHANGED <<event, enriched_contributors, response>>
    /\ UNCHANGED <<storeVars, flowVars, queueVars, apiVars, monitorVars>>

\* one turn of the loop over the contributors: get_user_details and
\* get_user_activity; an exception is logged and the contributor is left out
handler_process_contributor ==
    /\ hpc = "details"
    /\ contributors_left # <<>>
    /\ LET c == Head(contributors_left)
       IN  /\ github_calls' = Append(github_calls,
                  [request |-> "user", status |-> IF c.details_ok THEN 200 ELSE 404])
           /\ enriched_contributors' =
                  (IF c.details_ok THEN Append(enriched_contributors, c.login)
                   ELSE enriched_contributors)
    /\ contributors_left' = Tail(contributors_left)
    /\ UNCHANGED <<hpc, event, caught, response>>
    /\ UNCHANGED <<storeVars, flowVars, queueVars, apiVars, monitorVars>>

\* state_manager.update_github_data(session_id, github_data); the github_data
\* dict is written by its total_contributors
handler_update_github_data(fault) ==
    /\ hpc = "details"
    /\ contributors_left = <<>>
    /\ handler_state_call("update_github_data",
                          "contributors:" \o ToString(Len(enriched_contributors)),
                          fault, "complete")
    /\ UNCHANGED <<event, contributors_left, enriched_contributors, response, github_calls>>
    /\ UNCHANGED <<flowVars, queueVars, apiVars, monitorVars>>

\* state_manager.add_message(session_id, "Successfully processed ...", "system")
\* and the 200 response
handler_completion_message(fault) ==
    /\ hpc = "complete"
    /\ LET r == state_manager_call(table, "add_message", event.session_id,
                                   [content |-> "Successfully processed "
                                        \o ToString(Len(enriched_contributors)),
                                    type |-> "system"], now, fault)
       IN  /\ table' = r.table
           /\ saved' = (IF r.status = "ok" THEN [saved EXCEPT ![event.session_id] = @ + 1]
                        ELSE saved)
           /\ IF r.status = "ok"
              THEN /\ hpc' = "returned"
                   /\ response' = HandlerResponse("response", 200, None)
                   /\ caught' = caught
              ELSE /\ hpc' = "except"
                   /\ caught' = r.status
                   /\ UNCHANGED response
    /\ UNCHANGED <<now, pc, call, cur, res, puts, ncalls>>
    /\ UNCHANGED <<event, contributors_left, enriched_contributors, github_calls>>
    /\ UNCHANGED <<flowVars, queueVars, apiVars, monitorVars>>

\* the except block: when session_id and state_manager are bound the error is
\* recorded with add_message, outside any try; then the 500 response
handler_except(fault) ==
    /\ hpc = "except"
    /\ IF event.session_id = Missing \/ event.repository = Missing
       THEN /\ fault = "none"
            /\ hpc' = "returned"
            /\ response' = HandlerResponse("response", 500, caught)
            /\ UNCHANGED <<table, saved>>
       ELSE LET r == state_manager_call(table, "add_message", event.session_id,
                                        [content |-> "Error processing GitHub data: "
                                             \o caught,
                                         type |-> "error"], now, fault)
            IN  /\ table' = r.table
                /\ IF r.status = "ok"
                   THEN /\ hpc' = "returned"
                        /\ response' = HandlerResponse("response", 500, caught)
                        /\ saved' = [saved EXCEPT ![event.session_id] = @ + 1]
                   ELSE /\ hpc' = "escaped"
                        /\ response' = HandlerResponse("exception", 0, r.status)
                        /\ UNCHANGED saved
    /\ UNCHANGED <<now, pc, call, cur, res, puts, ncalls>>
    /\ UNCHANGED <<event, contributors_left, enriched_contributors, caught, github_calls>>
    /\ UNCHANGED <<flowVars, queueVars, apiVars, monitorVars>>

ScraperNext ==
    \/ \E body \in HandlerBodies : handler_parse(body)
    \/ \E fault \in StateFaults : handler_processing_message(fault)
    \/ \E status \in {200, 403, 404} : \E data \in HandlerApiData :
          handler_get_contributors(status, data)
    \/ handler_process_contributor
    \/ \E fault \in StateFaults : handler_update_github_data(fault)
    \/ \E fault \in StateFaults : handler_completion_message(fault)
    \/ \E fault \in StateFaults : handler_except(fault)
    \/ Tick

(***************************************************************************)
(* Part VI (specifications MetricsSpec and HealthSpec): the queue monitor, *)
(* utils/queue_monitor.py, over the rq broker and its workers.             *)
(***************************************************************************)
MaxCycles == 2
MaxAdvances == 3

JobTimeout == 3600
HeartbeatLimit == 300
CheckInterval == 60

MetricsInit ==
    /\ processed = [l \in Lanes |-> [completed |-> 0, failed |-> 0]]
    /\ cycles = 0

\* one turn of the monitoring loop: update_queue_metrics adds the present
\* size of each lane's finished and failed registries to the counters
\* (update_job_metrics only feeds the duration summary)
update_queue_metrics ==
    /\ cycles < MaxCycles
    /\ processed' =
          [l \in Lanes |->
              [completed |-> processed[l].completed + Cardinality(finished_registry[l]),
               failed |-> processed[l].failed + Cardinality(failed_registry[l])]]
    /\ cycles' = cycles + 1
    /\ UNCHANGED <<workers, clock, issues, advances>>
    /\ UNCHANGED <<storeVars, flowVars, queueVars, apiVars, scraperVars>>

MetricsNext ==
    \/ \E j \in JobIds : \E priority \in Priorities : enqueue_job(j, priority)
    \/ \E lane \in Lanes : worker_dequeue(lane)
    \/ \E j \in JobIds : \E success \in BOOLEAN : worker_perform_job(j, success)
    \/ update_queue_metrics

WorkerNames == {"wk1", "wk2"}

\* the lanes each worker listens on: Worker.all(queue=queue) lists a worker
\* under every lane it serves
WorkerLanes(n) == IF n = "wk1" THEN {"default"} ELSE {"high", "low"}

\* faulty variant: flagged as soon as the timeout is reached
Stuck_at_timeout(w, t) ==
    w.state = "busy" /\ w.current_job # NoDate /\ t - w.current_job[1] >= JobTimeout

\* worker.state == 'busy', worker.current_job, job_duration > settings.JOB_TIMEOUT;
\* current_job holds the started_at of the job
Stuck(w, t) ==
    w.state = "busy" /\ w.current_job # NoDate /\ t - w.current_job[1] > JobTimeout

\* faulty variant: the heartbeat is only looked at while the worker is busy
Unresponsive_busy_only(w, t) ==
    w.state = "busy" /\ w.last_heartbeat # NoDate /\ t - w.last_heartbeat[1] > HeartbeatLimit

\* last_heartbeat and heartbeat_age > 300
Unresponsive(w, t) ==
    w.last_heartbeat # NoDate /\ t - w.last_heartbeat[1] > HeartbeatLimit

\* QueueMonitor.check_worker_health: per lane, the issues of its workers
check_worker_health(ws, t) ==
    [l \in Lanes |->
        {[worker |-> n, kind |-> "stuck"] :
            n \in {m \in WorkerNames : l \in WorkerLanes(m) /\ Stuck(ws[m], t)}}
        \cup
        {[worker |-> n, kind |-> "heartbeat"] :
            n \in {m \in WorkerNames : l \in WorkerLanes(m) /\ Unresponsive(ws[m], t)}}]

HealthInit ==
    /\ workers = [n \in WorkerNames |->
                    [state |-> "idle", current_job |-> NoDate,
                     last_heartbeat |-> IF n = "wk1" THEN <<0>> ELSE NoDate]]
    /\ clock = 0
    /\ issues = [at |-> 0, checked |-> FALSE, found |-> [l \in Lanes |-> {}]]
    /\ advances = 0

\* a worker takes a job: state busy, the job's started_at is now
worker_start_job(n) ==
    /\ workers[n].state = "idle"
    /\ workers' = [workers EXCEPT ![n] = [state |-> "busy", current_job |-> <<clock>>,
                                          last_heartbeat |-> <<clock>>]]
    /\ UNCHANGED <<clock, issues, advances, processed, cycles>>
    /\ UNCHANGED <<storeVars, flowVars, queueVars, apiVars, scraperVars>>

\* the worker ends its job and is idle again
worker_end_job(n) ==
    /\ workers[n].state = "busy"
    /\ workers' = [workers EXCEPT ![n] = [state |-> "idle", current_job |-> NoDate,
                                          last_heartbeat |-> <<clock>>]]
    /\ UNCHANGED <<clock, issues, advances, processed, cycles>>
    /\ UNCHANGED <<storeVars, flowVars, queueVars, apiVars, scraperVars>>

\* the worker records a heartbeat
worker_heartbeat(n) ==
    /\ workers[n].last_heartbeat # <<clock>>
    /\ workers' = [workers EXCEPT ![n].last_heartbeat = <<clock>>]
    /\ UNCHANGED <<clock, issues, advances, processed, cycles>>
    /\ UNCHANGED <<storeVars, flowVars, queueVars, apiVars, scraperVars>>

\* time passes
clock_advances(d) ==
    /\ advances < MaxAdvances
    /\ clock' = clock + d
    /\ advances' = advances + 1
    /\ UNCHANGED <<workers, issues, processed, cycles>>
    /\ UNCHANGED <<storeVars, flowVars, queueVars, apiVars, scraperVars>>

\* monitor: more than a minute after last_check the health check runs and
\* last_check is set
monitor_check_worker_health ==
    /\ clock - issues.at > CheckInterval
    /\ issues' = [at |-> clock, checked |-> TRUE, found |-> check_worker_health(workers, clock)]
    /\ UNCHANGED <<workers, clock, advances, processed, cycles>>
    /\ UNCHANGED <<storeVars, flowVars, queueVars, apiVars, scraperVars>>

HealthNext ==
    \/ \E n \in WorkerNames : worker_start_job(n)
    \/ \E n \in WorkerNames : worker_end_job(n)
    \/ \E n \in WorkerNames : worker_heartbeat(n)
    \/ \E d \in {1, HeartbeatLimit, JobTimeout} : clock_advances(d)
    \/ monitor_check_worker_health

(***************************************************************************)
(* Specifications.                                                         *)
(***************************************************************************)
ApiInit == responses = <<>> /\ coordinator_calls = <<>>

Init == StoreInit /\ FlowOff /\ QueueInit /\ ApiInit /\ ScraperOff /\ MetricsInit /\ HealthInit
Next == StoreNext
Spec == Init /\ [][Next]_vars

FlowSpecInit ==
    FlowInit /\ StoreInit /\ QueueInit /\ ApiInit /\ ScraperOff /\ MetricsInit /\ HealthInit
FlowSpecNext == FlowNext
FlowSpec == FlowSpecInit /\ [][FlowSpecNext]_vars

QueueSpecInit ==
    QueueInit /\ StoreInit /\ FlowOff /\ ApiInit /\ ScraperOff /\ MetricsInit /\ HealthInit
QueueSpecNext == QueueNext
QueueSpec == QueueSpecInit /\ [][QueueSpecNext]_vars

ApiSpecInit ==
    ApiInit /\ StoreInit /\ FlowOff /\ QueueInit /\ ScraperOff /\ MetricsInit /\ HealthInit
ApiSpecNext == ApiNext
ApiSpec == ApiSpecInit /\ [][ApiSpecNext]_vars

\* the session of the event has none or one snapshot, the one the API
\* handler created before the scraper ran
ScraperSpecInit ==
    /\ \/ table = {} /\ saved = [s \in Sessions |-> 0]
       \/ /\ table = {create_state_put_params("s1",
                          StateData(<<[content |-> "m1", type |-> "human"]>>,
                                    None, None, None), 0)}
          /\ saved = [s \in Sessions |-> IF s = "s1" THEN 1 ELSE 0]
    /\ now = 0
    /\ pc = [w \in Writers |-> "idle"]
    /\ call = [w \in Writers |-> NoCall]
    /\ cur = [w \in Writers |-> NotFound]
    /\ res = [w \in Writers |-> NoResult]
    /\ puts = [w \in Writers |-> 0]
    /\ ncalls = 0
    /\ ScraperOff /\ FlowOff /\ QueueInit /\ ApiInit /\ MetricsInit /\ HealthInit

ScraperSpec == ScraperSpecInit /\ [][ScraperNext]_vars

MetricsSpec == Init /\ [][MetricsNext]_vars

HealthSpec == Init /\ [][HealthNext]_vars

(***************************************************************************)
(* Claims about the session state store (specification Spec).              *)
(***************************************************************************)
History(s) == {i \in table : i.session_id = s}
IsPrefix(a, b) == Len(a) <= Len(b) /\ SubSeq(b, 1, Len(a)) = a

\* C1: in every session the messages of a newer snapshot extend the messages
\* of every older snapshot, whatever the interleaving of the writers.
C1_MessagesOnlyGrow ==
    \A a \in table : \A b \in table :
        (a.session_id = b.session_id /\ StrLess(a.timestamp, b.timestamp))
            => IsPrefix(Eval(a.state).messages, Eval(b.state).messages)

\* C2: every save_state call that returned normally added one snapshot to the
\* history of its session, so the history has as many snapshots as saves.
C2_EverySaveAddsASnapshot ==
    \A s \in Sessions : Cardinality(History(s)) = saved[s]

\* what get_latest_state has to deliver for session sid on table tbl
IsLatestOf(v, tbl, sid) ==
    LET H == {i \in tbl : i.session_id = sid}
    IN  IF H = {} THEN v = NotFound
        ELSE /\ v # NotFound
             /\ v.session_id = sid
             /\ \E i \in H : parse_dynamo_state(i) = v
             /\ \A j \in H : fromisoformat(j.timestamp) <= v.timestamp

\* C10: get_latest_state returns the snapshot of the session with the greatest
\* timestamp, None exactly when the session has no snapshot, and never a
\* snapshot of another session.
C10_LatestIsHighestVersion ==
    [][\A w \in Writers :
          (pc[w] = "get" /\ pc'[w] # "get" /\ res'[w].status # "StorageError")
            => IsLatestOf(IF pc'[w] = "save" THEN cur'[w] ELSE res'[w].value,
                          table, call[w].session_id)]_vars

C10_Witness ==
    \E w \in Writers :
        /\ pc[w] = "idle"
        /\ res[w].status = "ok"
        /\ res[w].value # NotFound
        /\ Cardinality(History(res[w].value.session_id)) >= 2

\* the state of the latest snapshot of session sid on table tbl
LatestState(tbl, sid) == Eval(create_state_query_params(tbl, sid)[1].state)

\* writer w ends a save_state request in this step
SaveEnds(w) == pc[w] = "save" /\ pc'[w] = "idle"

\* C21: the store is last-writer-wins: a save whose request reaches the store
\* returns normally and its snapshot, built from the snapshot the writer read
\* (even when another writer has appended since), becomes the latest of the
\* session; no call reports a conflict.
C21_LastWriterWins ==
    [][\A w \in Writers :
          (SaveEnds(w) /\ res'[w].status # "StorageError") =>
              /\ res'[w].status = "ok"
              /\ LatestState(table', call[w].session_id) = StateToSave(call[w], cur[w])]_vars

\* a lost update: both writers returned normally, an older snapshot carries
\* the message one of them added and the latest snapshot, written by the
\* other from the same read, carries its data but not that message
C21_Witness ==
    /\ \A w \in Writers : pc[w] = "idle" /\ res[w].status = "ok"
    /\ \E a \in table : \E b \in table :
          /\ a.session_id = b.session_id
          /\ StrLess(a.timestamp, b.timestamp)
          /\ Len(Eval(a.state).messages) = 2
          /\ Len(Eval(b.state).messages) = 1
          /\ Eval(a.state).github_data = EmptyDict
          /\ Eval(b.state).github_data \in GithubValues
          /\ create_state_query_params(table, b.session_id) = <<b>>

\* the fields of snapshot a that operation op leaves as they are in snapshot b
SameMessages(a, b) == a.messages = b.messages
OneMoreMessage(a, b) == Len(a.messages) = Len(b.messages) + 1 /\ IsPrefix(b.messages, a.messages)

\* C22: with a single writer on the session every update operation changes
\* its own field and copies the rest of the latest snapshot: update_github_data
\* and update_linkedin_data keep the messages and the two other outputs,
\* add_message appends exactly one message and keeps the three outputs,
\* finalize_state sets final_response, appends exactly one message and keeps
\* github_data and linkedin_data.
C22_UpdatesCopyTheRest ==
    [][\A w \in Writers :
          (/\ SaveEnds(w) /\ res'[w].status = "ok"
           /\ call[w].op \in UpdateOps
           /\ IsLatestOf(cur[w], table, call[w].session_id)) =>
              LET old == LatestState(table, call[w].session_id)
                  new == LatestState(table', call[w].session_id)
                  op == call[w].op
              IN  /\ op = "update_github_data" =>
                        /\ new.github_data = call[w].arg
                        /\ SameMessages(new, old)
                        /\ new.linkedin_data = old.linkedin_data
                        /\ new.final_response = old.final_response
                  /\ op = "update_linkedin_data" =>
                        /\ new.linkedin_data = call[w].arg
                        /\ SameMessages(new, old)
                        /\ new.github_data = old.github_data
                        /\ new.final_response = old.final_response
                  /\ op = "add_message" =>
                        /\ OneMoreMessage(new, old)
                        /\ new.messages[Len(new.messages)] = call[w].arg
                        /\ new.github_data = old.github_data
                        /\ new.linkedin_data = old.linkedin_data
                        /\ new.final_response = old.final_response
                  /\ op = "finalize_state" =>
                        /\ new.final_response = call[w].arg
                        /\ OneMoreMessage(new, old)
                        /\ new.github_data = old.github_data
                        /\ new.linkedin_data = old.linkedin_data]_vars

\* a snapshot that carries the data of two update operations
C22_Witness ==
    \E i \in table :
        /\ Eval(i.state).github_data \in GithubValues
        /\ Eval(i.state).linkedin_data \in LinkedinValues
        /\ \A w \in Writers : pc[w] = "idle"

\* C23: when the backend is unavailable the operation raises the storage
\* error to its caller and the history of every session is unchanged; a save
\* that returns normally has written its snapshot.
C23_StorageErrorPropagates ==
    [][\A w \in Writers :
          /\ (pc[w] # "idle" /\ res'[w].status = "StorageError") => table' = table /\ saved' = saved
          /\ SaveEnds(w) =>
                \/ res'[w].status = "StorageError"
                \/ /\ res'[w].status = "ok"
                   /\ create_state_put_params(call[w].session_id,
                            StateToSave(call[w], cur[w]), now) \in table'
          /\ (pc[w] = "get" /\ pc'[w] = "idle" /\ call[w].op \in UpdateOps) =>
                res'[w].status \in {"StorageError", "ValueError"}]_vars

\* an update operation ended with the storage error after its session had a
\* snapshot
C23_Witness ==
    \E w \in Writers :
        /\ res[w].status = "StorageError"
        /\ puts[w] = 1
        /\ table # {}

Count(seq, x) == Cardinality({k \in DOMAIN seq : seq[k] = x})
Stages == {"resolve", "fetch", "enrich", "merge"}
Ran(stage) == \E k \in DOMAIN trace : trace[k] = stage
FirstIndex(stage) == CHOOSE k \in DOMAIN trace :
                        trace[k] = stage /\ \A j \in 1..(k - 1) : trace[j] # stage

\* the primary entities fetched and the entities of the merged result
FetchedNames ==
    [i \in 1..Len(github_result.profiles) |->
        IF path = "execute_task" THEN github_result.profiles[i].username
        ELSE github_result.profiles[i].github_username]
MergedNames ==
    [i \in 1..Len(final_response.profiles) |->
        IF path = "execute_task" THEN final_response.profiles[i].github_data.username
        ELSE final_response.profiles[i].github_info.username]
FetchedUrl(i) ==
    IF path = "execute_task" THEN github_result.profiles[i].linkedin_url
    ELSE github_result.profiles[i].social_urls.linkedin

C4_LookupFailureNeverAborts ==
    (Truthy(github_result) /\ Ran("enrich")) => fpc # "failed"

\* C5: after the lookups of a run, every fetched primary entity has had exactly
\* one lookup: the fallback one without a LinkedIn URL, the direct one with it.
C5_ExactlyOneLookupPath ==
    (fpc \in {"merge", "done"} /\ Truthy(github_result)) =>
        \A i \in 1..Len(github_result.profiles) :
            LET mine == {k \in DOMAIN lookups : lookups[k].entity = FetchedNames[i]}
            IN  /\ Cardinality(mine) = 1
                /\ \A k \in mine :
                      lookups[k].kind = (IF FetchedUrl(i) = None THEN "fallback" ELSE "direct")

\* C6: when no fetched entity carries a LinkedIn URL, the LinkedIn stage
\* (linkedin_node, LinkedInAgent.process) does not run.
C6_NoUrlSkipsLinkedinStage ==
    (/\ path \in {"process", "workflow"}
     /\ Truthy(github_result)
     /\ Len(linkedin_urls(github_result)) = 0) => ~Ran("enrich")

\* the secondary info a merged entity carries, and the error-free secondary results
MergedInfo(i) ==
    IF path = "execute_task"
    THEN LET d == final_response.profiles[i].linkedin_data
         IN  [present |-> d.kind = "profile", url |-> d.profile_url, info |-> d.info]
    ELSE final_response.profiles[i].linkedin_info
GoodResults ==
    IF ~Truthy(linkedin_result) THEN {}
    ELSE IF path = "execute_task"
    THEN {[pos |-> k, url |-> linkedin_result.profiles[k].profile_url,
           info |-> linkedin_result.profiles[k].info] :
              k \in {j \in DOMAIN linkedin_result.profiles :
                        linkedin_result.profiles[j].kind = "profile"}}
    ELSE {[pos |-> k, url |-> linkedin_result.profiles[k].linkedin_url,
           info |-> linkedin_result.profiles[k].info] :
              k \in {j \in DOMAIN linkedin_result.profiles :
                        ~linkedin_result.profiles[j].error}}

JoinedByUrl(i) ==
    /\ FetchedUrl(i) # None
    /\ \E r \in GoodResults : r.url = FetchedUrl(i) /\ r.info = MergedInfo(i).info

\* C7 as stated: a merged entity carries secondary info only when an error-free
\* secondary result has the entity's own LinkedIn URL, and it carries that info.
C7_SecondaryInfoJoinedByUrl ==
    outcome = "completed" =>
        \A i \in DOMAIN final_response.profiles : MergedInfo(i).present => JoinedByUrl(i)

\* C7 amended: on the _merge_results paths the info is joined by URL; on the
\* execute_task path an entity carries the result of the lookup issued for it,
\* which has the entity's URL when the entity has one.
C7_SecondaryInfoOfOwnLookup ==
    outcome = "completed" =>
        \A i \in DOMAIN final_response.profiles :
            MergedInfo(i).present =>
                IF path # "execute_task" THEN JoinedByUrl(i)
                ELSE /\ \E r \in GoodResults : r.pos = i /\ r.info = MergedInfo(i).info
                     /\ FetchedUrl(i) # None => MergedInfo(i).url = FetchedUrl(i)

C7_Witness ==
    /\ outcome = "completed"
    /\ path = "process"
    /\ Len(final_response.profiles) = 2
    /\ MergedInfo(2).present
    /\ ~MergedInfo(1).present
    /\ \E r \in GoodResults : r.pos = 1 /\ r.url = FetchedUrl(2)

\* C8: the stages run in the order resolve, fetch, (enrich), merge, and a run
\* that completes has run merge exactly once, as its last stage.
C8_StagesInOrder ==
    /\ Ran("fetch") => (Ran("resolve") /\ FirstIndex("resolve") < FirstIndex("fetch"))
    /\ Ran("enrich") => (Ran("fetch") /\ FirstIndex("fetch") < FirstIndex("enrich"))
    /\ Ran("merge") => (Ran("fetch") /\ FirstIndex("fetch") < FirstIndex("merge"))
    /\ outcome = "completed" =>
          (Count(trace, "merge") = 1 /\ trace[Len(trace)] = "merge")

\* C9: within one run no stage is invoked more than once.
C9_EachStageAtMostOnce ==
    \A stage \in Stages : Count(trace, stage) <= 1

(***************************************************************************)
(* Claims about the job queue (QueueSpec).                                 *)
(***************************************************************************)
BrokerState == <<jobs, queues, finished_registry, failed_registry>>

\* the step in which a cancel_job call returns
CancelReturns ==
    /\ report'.op = "cancel_job"
    /\ \/ cancelling.pc = "cancel" /\ cancelling'.pc = "idle"
       \/ /\ nops' = nops + 1
          /\ cancelling' = cancelling
          /\ inspecting' = inspecting

\* the step that is a whole clean_old_jobs call
CleanRuns ==
    /\ report'.op = "clean_old_jobs"
    /\ nops' = nops + 1
    /\ cancelling' = cancelling
    /\ inspecting' = inspecting

Deleted(j) == jobs[j].status # "none" /\ jobs'[j].status = "none"

Ended(rec) == rec.status \in {"finished", "failed"}

\* C15: cancel_job on a job it finds started or finished returns false and
\* changes nothing in the broker; cancel_job on a job that is queued sets it
\* to canceled and returns true
C15_CancelOnlyWhileQueued ==
    [][CancelReturns =>
          /\ report'.read \in {"started", "finished"} =>
                ~report'.returned /\ BrokerState' = BrokerState
          /\ (report'.read = "queued" /\ jobs[report'.job].status = "queued") =>
                report'.returned /\ jobs'[report'.job].status = "canceled"]_vars

C15_Witness ==
    /\ report.op = "cancel_job"
    /\ report.read = "started"
    /\ ~report.returned
    /\ \E j \in JobIds : jobs[j].status = "canceled" /\ j \notin executed

\* C16: a job for which cancel_job returned true was never pulled by a
\* worker, whatever the interleaving of the call with the workers
C16_CancelledNeverExecuted ==
    (report.op = "cancel_job" /\ report.returned) => report.job \notin executed

\* C17: clean_old_jobs(N) deletes only jobs that are finished or failed and
\* whose ended_at is older than N days
C17_CleanDeletesOnlyOldEndedJobs ==
    [][\A j \in JobIds :
          Deleted(j) =>
             /\ report'.op = "clean_old_jobs"
             /\ Ended(jobs[j])
             /\ jobs[j].ended_at # NoDate
             /\ jobs[j].ended_at[1] < today - report'.days]_vars

C17_Witness ==
    /\ report.op = "clean_old_jobs"
    /\ report.count = 1
    /\ \E j \in JobIds : jobs[j].status = "none" /\ requested[j] # None
    /\ \E j \in JobIds : jobs[j].status = "finished" /\ jobs[j].ended_at[1] >= today - report.days

\* C18: after clean_old_jobs(N) without broker errors no finished or failed
\* job older than N days is left on any lane, and the count returned is the
\* number of job records deleted
C18_CleanLeavesNoOldEndedJob ==
    [][(CleanRuns /\ ~report'.errors) =>
          /\ \A j \in JobIds :
                (Ended(jobs'[j]) /\ jobs'[j].ended_at # NoDate) =>
                    ~(jobs'[j].ended_at[1] < today - report'.days)
          /\ report'.count = Cardinality({j \in JobIds : Deleted(j)})]_vars

\* the lanes on which the broker holds job j
LanesOf(j) ==
    {l \in Lanes : \/ \E i \in DOMAIN queues[l] : queues[l][i] = j
                   \/ j \in finished_registry[l]
                   \/ j \in failed_registry[l]}

\* C19: a job enqueued with priority high, default or low is on the lane of
\* that name and on no other, from enqueue_job on
C19_LaneNeverMigrates ==
    \A j \in JobIds :
       requested[j] \in Lanes =>
          /\ LanesOf(j) \subseteq {requested[j]}
          /\ jobs[j].origin # None => jobs[j].origin = requested[j]
          /\ jobs[j].status = "queued" =>
                Cardinality({i \in DOMAIN queues[requested[j]] :
                                queues[requested[j]][i] = j}) = 1

C19_Witness ==
    /\ "j1" \in finished_registry["high"]
    /\ requested["j1"] = "high"
    /\ requested["j2"] = "low"
    /\ queues["low"] = <<"j2">>

EmptyDescription(body) == body.task_description = ""
LimitOutOfRange(body) == LimitOf(body) < 1 \/ LimitOf(body) > 100
Submitted(body) == body.task_description # Missing

SnapshotsOf(sid) == {i \in table : i.session_id = sid}

\* C11: a submission with an empty task description or a limit outside
\* 1..100 is answered with 400 and leaves no snapshot of a new session
C11_InvalidSubmissionRejected ==
    \A k \in DOMAIN responses :
       LET r == responses[k]
       IN  (r.endpoint = "api" /\ Submitted(r.body)
              /\ (EmptyDescription(r.body) \/ LimitOutOfRange(r.body))) =>
              /\ r.statusCode = 400
              /\ table = {}

\* C12: an accepted submission is answered with 202, status "processing" and
\* a fresh session id under which exactly one snapshot exists, with the task
\* description as first message and empty stage outputs
C12_AcceptedSubmissionCreatesSnapshot ==
    \A k \in DOMAIN responses :
       LET r == responses[k]
       IN  (r.endpoint = "api" /\ Submitted(r.body)
              /\ ~EmptyDescription(r.body) /\ ~LimitOutOfRange(r.body)) =>
              /\ r.statusCode = 202
              /\ r.status = "processing"
              /\ \A m \in 1..(k - 1) : responses[m].session_id # r.session_id
              /\ Cardinality(SnapshotsOf(r.session_id)) = 1
              /\ \A i \in SnapshotsOf(r.session_id) :
                    /\ Eval(i.state).messages[1].content = r.body.task_description
                    /\ Eval(i.state).github_data = EmptyDict
                    /\ Eval(i.state).linkedin_data = EmptyDict
                    /\ Eval(i.state).final_response = EmptyDict

\* C13: /recruit answers 400 without calling the coordinator exactly when the
\* description is empty or the limit is outside 1..100; every other request
\* is passed on to the coordinator
C13_RecruitRejectsExactlyInvalid ==
    \A k \in DOMAIN responses :
       LET r == responses[k]
       IN  r.endpoint = "recruit" =>
              /\ ~r.reached_coordinator <=>
                    (EmptyDescription(r.body) \/ LimitOutOfRange(r.body))
              /\ ~r.reached_coordinator => r.statusCode = 400
              /\ Len(coordinator_calls) =
                    Cardinality({m \in DOMAIN responses : responses[m].reached_coordinator})

\* the run has resolved its target; the identifier is not of the form owner/repo
Resolved == repo.parts # 0
NotOwnerRepo(r) == r.parts # 2 \/ r.blank

\* C25: an identifier that is not of the form owner/repo fails the run with
\* the format error before any request to GitHub; a well-formed identifier of
\* a repository that does not exist fails it with the not-found error; in
\* neither case is a contributor fetch issued.
C25_MalformedFailsBeforeAnyRequest ==
    /\ (Resolved /\ NotOwnerRepo(repo)) =>
          /\ outcome = "ValueError: invalid format"
          /\ requests = <<>>
    /\ (Resolved /\ ~NotOwnerRepo(repo) /\ ~repo.exists /\ outcome # None) =>
          /\ outcome = "ValueError: not found"
          /\ Count(requests, "get_contributors") = 0

\* C14: the number of contributors fetched in a run never exceeds the limit
\* the caller supplied
C14_FetchedWithinLimit ==
    Truthy(github_result) => Len(github_result.profiles) <= limit

(***************************************************************************)
(* Claims about the scraper handler (specification ScraperSpec).           *)
(***************************************************************************)
\* the contributors request was answered with a status other than 200
FetchFailed ==
    \E k \in DOMAIN github_calls :
        github_calls[k].request = "contributors" /\ github_calls[k].status # 200
HandlerEnded == hpc \in {"returned", "escaped"}

\* C24: when the contributors request fails, the invocation ends with no
\* github_data in any snapshot of the session, with an error-type message at
\* the end of the latest snapshot, and with an error response.
C24_FetchFailureMarksSessionFailed ==
    (FetchFailed /\ HandlerEnded) =>
        /\ \A i \in History(event.session_id) : Eval(i.state).github_data = EmptyDict
        /\ LET msgs == LatestState(table, event.session_id).messages
           IN  msgs[Len(msgs)].type = "error"
        /\ response.kind = "response"
        /\ response.statusCode >= 400

\* C30: every invocation of the handler ends by returning a response with
\* status code 200 or an error code; no exception leaves the handler.
C30_HandlerAlwaysReturns ==
    /\ hpc # "escaped"
    /\ response.kind # "exception"
    /\ hpc = "returned" => response.kind = "response" /\ response.statusCode \in {200, 500}

(***************************************************************************)
(* Claims about the queue monitor (specifications MetricsSpec, HealthSpec).*)
(***************************************************************************)
\* worker n is reported with an issue of this kind under lane l
Flagged(found, l, n, kind) == [worker |-> n, kind |-> kind] \in found[l]

\* the health check runs in this step
HealthChecked == issues' # issues

\* C26: the health check reports a worker as stuck, under the lanes it
\* serves, exactly when its current job has run for more than the job
\* timeout; an idle worker and a job within the timeout are not reported.
C26_StuckExactlyBeyondTimeout ==
    [][HealthChecked =>
          \A n \in WorkerNames : \A l \in Lanes :
              Flagged(issues'.found, l, n, "stuck") <=>
                  /\ l \in WorkerLanes(n)
                  /\ workers[n].current_job # NoDate
                  /\ clock - workers[n].current_job[1] > JobTimeout]_vars

\* a check found a worker stuck, and a later state where a job that has run
\* for exactly the timeout was not reported
C26_Witness ==
    /\ issues.checked
    /\ \E l \in Lanes : Flagged(issues.found, l, "wk1", "stuck")
    /\ ~\E l \in Lanes : Flagged(issues.found, l, "wk2", "stuck")
    /\ workers["wk2"].state = "busy"

\* C27: the health check reports a worker as unresponsive exactly when its
\* last heartbeat is more than 300 seconds old, busy or idle, and reports it
\* apart from the stuck issue when both hold.
C27_UnresponsiveExactlyBeyondLimit ==
    [][HealthChecked =>
          \A n \in WorkerNames : \A l \in Lanes :
              /\ Flagged(issues'.found, l, n, "heartbeat") <=>
                    /\ l \in WorkerLanes(n)
                    /\ workers[n].last_heartbeat # NoDate
                    /\ clock - workers[n].last_heartbeat[1] > 300
              /\ (/\ l \in WorkerLanes(n)
                  /\ workers[n].current_job # NoDate
                  /\ clock - workers[n].current_job[1] > JobTimeout
                  /\ workers[n].last_heartbeat # NoDate
                  /\ clock - workers[n].last_heartbeat[1] > 300) =>
                    Cardinality({i \in issues'.found[l] : i.worker = n}) = 2]_vars

\* a check reported an idle worker as unresponsive and another worker both as
\* stuck and as unresponsive
C27_Witness ==
    /\ issues.checked
    /\ \E n \in WorkerNames : \E l \in Lanes :
          /\ workers[n].state = "idle"
          /\ Flagged(issues.found, l, n, "heartbeat")
    /\ \E n \in WorkerNames : \E l \in Lanes :
          /\ Flagged(issues.found, l, n, "heartbeat")
          /\ Flagged(issues.found, l, n, "stuck")

\* jobs that ended on lane l with this status
EndedOn(l, status) == {j \in JobIds : jobs[j].status = status /\ jobs[j].origin = l}

\* C28: on every lane the cumulative finished and failed counters never
\* exceed the number of jobs that finished or failed on that lane: over any
\* number of monitoring cycles a job is counted once.
C28_EachJobCountedOnce ==
    \A l \in Lanes :
        /\ processed[l].completed <= Cardinality(EndedOn(l, "finished"))
        /\ processed[l].failed <= Cardinality(EndedOn(l, "failed"))

====
